---- MODULE Spec2Model ----
(***************************************************************************)
(* beetFs: a collection of tagged audio files projected as a filesystem.   *)
(* The model covers the FLAC header codec (InterpolatedFLAC), the tree     *)
(* index (FSNode) and its construction by mount(), the virtual file        *)
(* composer (FileHandler) and the operations of beetFileSystem (getattr,   *)
(* access, opendir, readdir, open, release, read, write and the            *)
(* operations that are not supported), the substitution of the path        *)
(* templates (template_mapping) and the dispatch of the callbacks by the   *)
(* single-threaded loop.                                                   *)
(*                                                                         *)
(* Byte strings are sequences of naturals 0..255.  Errors raised by the    *)
(* Python code are modelled as result records [ok |-> FALSE, err |-> e].   *)
(*                                                                         *)
(* Reading conventions for the source:                                     *)
(*  - byte strings and text strings are not distinguished;                 *)
(*  - the statements at beetFs.py:306 and beetFs.py:388, which the source  *)
(*    indents below a raise, are read at the indentation of the mutagen    *)
(*    methods they override (FLAC.__read_metadata_block and                *)
(*    FLAC.__check_header): the block is built after the length test and   *)
(*    the header size is returned;                                         *)
(*  - the operations defined from beetFs.py:759 on are read as methods of  *)
(*    beetFileSystem.                                                      *)
(*  - the mutagen library (Padding, VCFLACDict, MetadataBlock.writeblocks, *)
(*    MetadataBlock.group_padding, BitPaddedInt) is modelled from its      *)
(*    documented behaviour; Vorbis comment keys are abbreviated to one     *)
(*    byte and stream-info, seek-table and cue-sheet payloads are kept as  *)
(*    opaque bytes.                                                        *)
(***************************************************************************)
EXTENDS Integers, Sequences, FiniteSets, TLC

----------------------------------------------------------------------------
(* Byte-string helpers (Python slicing and concatenation) *)

Min(a, b) == IF a < b THEN a ELSE b

Max(a, b) == IF a > b THEN a ELSE b

\* Python s[a:b] for a >= 0 (b may be anything; negative b is not used)
Slice(s, a, b) == SubSeq(s, Min(a, Len(s)) + 1, Min(Max(b, 0), Len(s)))

\* Python s[a:]
SliceFrom(s, a) == Slice(s, a, Len(s))

\* '\x00' * n
Zeros(n) == [i \in 1..Max(n, 0) |-> 0]

\* to_int_be: big-endian integer of a byte string of any length
RECURSIVE to_int_be(_)
to_int_be(s) ==
    IF Len(s) = 0 THEN 0
    ELSE to_int_be(SubSeq(s, 1, Len(s) - 1)) * 256 + s[Len(s)]

\* struct.pack(">I", n)[-3:], the 3-byte block length written by writeblocks
be3(n) == << (n \div 65536) % 256, (n \div 256) % 256, n % 256 >>

\* little-endian 4-byte integers of the Vorbis comment framing
le4(n) == << n % 256, (n \div 256) % 256, (n \div 65536) % 256,
             (n \div 16777216) % 256 >>

from_le4(s) == s[1] + 256 * s[2] + 65536 * s[3] + 16777216 * s[4]

\* mutagen.id3.BitPaddedInt of a 4-byte string: 7 bits per byte, big-endian
BitPaddedInt(s) ==
    (((s[1] % 128) * 128 + (s[2] % 128)) * 128 + (s[3] % 128)) * 128
      + (s[4] % 128)

----------------------------------------------------------------------------
(* Format constants *)

fLaC == << 102, 76, 97, 67 >>

ID3 == << 73, 68, 51 >>

\* the two frame sync codes load() accepts at the start of the audio
SyncCodes == { << 255, 248 >>, << 255, 249 >> }

\* block type codes: index into FLAC.METADATA_BLOCKS
StreamInfoCode == 0

PaddingCode == 1

SeekTableCode == 3

VCFLACDictCode == 4

CueSheetCode == 5

\* the codes for which METADATA_BLOCKS holds a class; 2 is None (TypeError),

\* length of the padding block get_header appends
PaddingInit == 1020

\* one-byte abbreviations of the Vorbis comment keys
TITLE == 1

ALBUM == 2

ARTIST == 3

GENRE == 4

EqualsSign == 61

\* vendor string of a comment block created by add_tags
NewVendor == << 77 >>

----------------------------------------------------------------------------
(* mutagen metadata blocks *)

\* A decoded block.  code: the block type; data: opaque payload (stream-info,
\* seek-table, cue-sheet and untyped blocks); length: Padding.length;
\* vendor, tags: the Vorbis comment (tags is a sequence of <<key, value>>).
Block(code, data, length, vendor, tags) ==
    [code |-> code, data |-> data, length |-> length, vendor |-> vendor,
     tags |-> tags]

\* mutagen.flac.Padding(data): only the length is kept
Padding(n) == Block(PaddingCode, << >>, n, << >>, << >>)

\* VComment.load, one comment: "key=value", or key unknown (0) when the
\* entry carries no '=' (errors='replace')
ParseEntry(e) ==
    IF Len(e) >= 2 /\ e[2] = EqualsSign
    THEN << e[1], SliceFrom(e, 2) >>
    ELSE << 0, e >>

\* VComment.load, the comment list: n entries from position pos
RECURSIVE ParseComments(_, _, _)
ParseComments(d, pos, n) ==
    IF n = 0 THEN [ok |-> TRUE, tags |-> << >>]
    ELSE IF pos + 4 > Len(d) THEN [ok |-> FALSE, tags |-> << >>]
    ELSE LET l == from_le4(Slice(d, pos, pos + 4))
         IN  IF pos + 4 + l > Len(d) THEN [ok |-> FALSE, tags |-> << >>]
             ELSE LET rest == ParseComments(d, pos + 4 + l, n - 1)
                  IN  [ok |-> rest.ok,
                       tags |-> << ParseEntry(Slice(d, pos + 4, pos + 4 + l)) >>
                                  \o rest.tags]

\* VCFLACDict(data): vendor length, vendor, comment count, comments
ParseVC(d) ==
    IF Len(d) < 4 THEN [ok |-> FALSE, vendor |-> << >>, tags |-> << >>]
    ELSE LET vl == from_le4(Slice(d, 0, 4))
         IN  IF 8 + vl > Len(d)
             THEN [ok |-> FALSE, vendor |-> << >>, tags |-> << >>]
             ELSE LET c == ParseComments(d, 8 + vl,
                                         from_le4(Slice(d, 4 + vl, 8 + vl)))
                  IN  [ok |-> c.ok, vendor |-> Slice(d, 4, 4 + vl),
                       tags |-> c.tags]

\* VComment.write, the comment list
RECURSIVE WriteComments(_)
WriteComments(tags) ==
    IF Len(tags) = 0 THEN << >>
    ELSE LET e == << tags[1][1], EqualsSign >> \o tags[1][2]
         IN  le4(Len(e)) \o e \o WriteComments(Tail(tags))

\* VComment.write
WriteVC(vendor, tags) ==
    le4(Len(vendor)) \o vendor \o le4(Len(tags)) \o WriteComments(tags)

\* block.write() of one block
BlockData(b) ==
    IF b.code = PaddingCode THEN Zeros(b.length)
    ELSE IF b.code = VCFLACDictCode THEN WriteVC(b.vendor, b.tags)
    ELSE b.data

\* MetadataBlock.writeblocks: code byte (high bit on the last block), 3-byte
\* big-endian length, payload
RECURSIVE writeblocks(_)
writeblocks(blocks) ==
    IF Len(blocks) = 0 THEN << >>
    ELSE LET b == blocks[1]
             datum == BlockData(b)
             byte == b.code + (IF Len(blocks) = 1 THEN 128 ELSE 0)
         IN  << byte >> \o be3(Len(datum)) \o datum
               \o writeblocks(Tail(blocks))

\* sum of the lengths of the padding blocks of a block list
RECURSIVE PaddingSum(_)
PaddingSum(blocks) ==
    IF Len(blocks) = 0 THEN 0
    ELSE (IF blocks[1].code = PaddingCode THEN blocks[1].length ELSE 0)
           + PaddingSum(Tail(blocks))

\* the blocks of a list that are not padding
NonPadding(blocks) == SelectSeq(blocks, LAMBDA b : b.code # PaddingCode)

\* MetadataBlock.group_padding: all padding blocks are removed and replaced
\* by one at the end, 4 bytes longer for each block header that went
group_padding(blocks) ==
    LET n == Len(SelectSeq(blocks, LAMBDA b : b.code = PaddingCode))
    IN  Append(NonPadding(blocks), Padding(PaddingSum(blocks) + 4 * (n - 1)))

----------------------------------------------------------------------------
(* InterpolatedFLAC *)

Fail(e) == [ok |-> FALSE, err |-> e]

\* InterpolatedFLAC.__check_header: the position just after the magic, which
\* may follow an ID3 tag whose size is a bit-padded integer at offset 6.
\* The error is built from fileobj.name, which an in-memory file lacks.
check_header(d) ==
    LET header == Slice(d, 0, 4)
    IN  IF header = fLaC THEN [ok |-> TRUE, size |-> 4]
        ELSE IF Slice(header, 0, 3) = ID3
        THEN LET sz == Slice(Slice(d, 4, 10), 2, 6)
             IN  IF Len(sz) < 4 THEN Fail("AttributeError")
                 ELSE LET size == 14 + BitPaddedInt(sz)
                      IN  IF Slice(d, size - 4, size) = fLaC
                          THEN [ok |-> TRUE, size |-> size]
                          ELSE Fail("AttributeError")
        ELSE Fail("AttributeError")

\* METADATA_BLOCKS[code](data) without the fallback: a code that has no
\* class is an error
MakeBlockRecognized(code, data) ==
    IF code = PaddingCode THEN [ok |-> TRUE, block |-> Padding(Len(data))]
    ELSE IF code = VCFLACDictCode
    THEN LET vc == ParseVC(data)
         IN  IF vc.ok
             THEN [ok |-> TRUE,
                   block |-> Block(code, << >>, 0, vc.vendor, vc.tags)]
             ELSE Fail("FLACVorbisError")
    ELSE IF code \in { StreamInfoCode, SeekTableCode, CueSheetCode }
    THEN [ok |-> TRUE, block |-> Block(code, data, 0, << >>, << >>)]
    ELSE Fail("TypeError")

\* METADATA_BLOCKS[code](data) with the fallback to an untyped MetadataBlock
MakeBlock(code, data) ==
    IF code = PaddingCode THEN [ok |-> TRUE, block |-> Padding(Len(data))]
    ELSE IF code = VCFLACDictCode
    THEN LET vc == ParseVC(data)
         IN  IF vc.ok
             THEN [ok |-> TRUE,
                   block |-> Block(code, << >>, 0, vc.vendor, vc.tags)]
             ELSE Fail("FLACVorbisError")
    ELSE [ok |-> TRUE, block |-> Block(code, data, 0, << >>, << >>)]

\* number of blocks of a code in a block list
Count(blocks, code) == Len(SelectSeq(blocks, LAMBDA b : b.code = code))

\* bound of the model: the longest block chain a stream of the model holds.
\* A longer chain is reported as TooManyBlocks and the calls that would
\* decode one are left out of the model.
MaxBlocks == 6

TooManyBlocks == "TooManyBlocks"

\* InterpolatedFLAC.__read_metadata_block, repeated by load() while it
\* returns true: reads the blocks of d from position pos on, appending to
\* blocks.  Returns the blocks and the position after the last one.
RECURSIVE read_metadata_blocks(_, _, _)
read_metadata_blocks(d, pos, blocks) ==
    IF Len(blocks) >= MaxBlocks THEN Fail(TooManyBlocks)
    ELSE IF pos >= Len(d) THEN Fail("TypeError")
    ELSE
    LET byte == d[pos + 1]
        size == to_int_be(Slice(d, pos + 1, pos + 4))
        data == Slice(d, pos + 4, pos + 4 + size)
        code == byte % 128
    IN  IF Len(data) # size THEN Fail("Exception")
        ELSE
        LET made == MakeBlock(code, data)
        IN  IF ~made.ok THEN made
            ELSE IF code = VCFLACDictCode /\ Count(blocks, code) > 0
            THEN Fail("FLACVorbisError")
            ELSE IF code \in {CueSheetCode, SeekTableCode}
                    /\ Count(blocks, code) > 0
            THEN Fail("Exception")
            ELSE IF (byte \div 128) = 1
            THEN [ok |-> TRUE, blocks |-> Append(blocks, made.block),
                  pos |-> pos + 4 + size]
            ELSE read_metadata_blocks(d, pos + 4 + size,
                                      Append(blocks, made.block))

\* the end of InterpolatedFLAC.load, r being what the block loop returned:
\* frame sync at the start of the audio, and a first block that has a
\* length attribute (StreamInfo and Padding have one)
load_checks(filedata, r) ==
    IF ~r.ok THEN r
    ELSE IF Slice(filedata, r.pos, r.pos + 2) \notin SyncCodes
    THEN Fail("FLACNoHeaderError")
    ELSE IF r.blocks[1].code \notin {StreamInfoCode, PaddingCode}
    THEN Fail("FLACNoHeaderError")
    ELSE [ok |-> TRUE, filedata |-> filedata, blocks |-> r.blocks]

\* InterpolatedFLAC.load: header check, block chain, final checks
load(filedata) ==
    LET h == check_header(filedata)
    IN  IF ~h.ok THEN h
        ELSE load_checks(filedata,
                         read_metadata_blocks(filedata, h.size, << >>))

\* InterpolatedFLAC.__find_audio_offset: walks the block headers from pos to
\* the end of the first block with the is-last flag
RECURSIVE find_audio_offset(_, _)
find_audio_offset(d, pos) ==
    LET byte == d[pos + 1]
        size == to_int_be(Slice(d, pos + 1, pos + 4))
    IN  IF (byte \div 128) = 1 THEN Min(pos + 4 + size, Len(d))
        ELSE find_audio_offset(d, Min(pos + 4 + size, Len(d)))

\* index of the Vorbis comment block of a block list, 0 if there is none
\* (self.tags: load() admits at most one)
TagsIndex(blocks) ==
    IF Count(blocks, VCFLACDictCode) = 0 THEN 0
    ELSE CHOOSE i \in 1..Len(blocks) :
            /\ blocks[i].code = VCFLACDictCode
            /\ \A j \in 1..(i - 1) : blocks[j].code # VCFLACDictCode

\* FileType.__setitem__ / VComment.__setitem__: self.inf[key] = value.
\* A missing comment block is added at the end (add_tags); every entry of
\* the key is removed and the new one appended.
SetTag(blocks, key, value) ==
    LET bs == IF TagsIndex(blocks) = 0
              THEN Append(blocks,
                          Block(VCFLACDictCode, << >>, 0, NewVendor, << >>))
              ELSE blocks
        i == TagsIndex(bs)
        kept == SelectSeq(bs[i].tags, LAMBDA t : t[1] # key)
    IN  [bs EXCEPT ![i].tags = Append(kept, << key, value >>)]

\* FileType.__getitem__ / VComment.__getitem__: self.inf[key][0], KeyError
\* when there is no comment block or no entry of the key
GetTag(blocks, key) ==
    LET i == TagsIndex(blocks)
        vals == IF i = 0 THEN << >>
                ELSE SelectSeq(blocks[i].tags, LAMBDA t : t[1] = key)
    IN  IF Len(vals) = 0 THEN Fail("KeyError")
        ELSE [ok |-> TRUE, value |-> vals[1][2]]

\* get_header growing the padding but never shrinking it
AdjustedPaddingNoShrink(length, natural, available) ==
    IF natural < available THEN length + (available - natural) ELSE length

\* The padding length get_header settles on: natural is the serialized
\* length with the merged padding, available the extent of the blocks of the
\* stream that was loaded.  Too much data shrinks the padding when a
\* positive length remains; too little grows it.
AdjustedPadding(length, natural, available) ==
    IF natural > available
    THEN LET newlength == length - (natural - available)
         IN  IF newlength > 0 THEN newlength ELSE length
    ELSE IF natural < available THEN length + (available - natural)
    ELSE length

\* InterpolatedFLAC.get_header: a padding block of PaddingInit bytes is
\* appended and all padding grouped at the end, then resized
get_header(filedata, blocks) ==
    LET grouped == group_padding(Append(blocks, Padding(PaddingInit)))
        header == check_header(filedata).size
        available == find_audio_offset(filedata, header) - header
        data == writeblocks(grouped)
        n == Len(grouped)
        resized == [grouped EXCEPT ![n].length =
                       AdjustedPadding(grouped[n].length, Len(data), available)]
    IN  fLaC \o writeblocks(resized)

----------------------------------------------------------------------------
(* FSNode: the directory tree *)

\* the globals mount() sets before it builds the tree: the templates of the
\* levels of PATH_FORMAT, one field per template in the model
VARIABLES structure_split

\* number of levels of PATH_FORMAT: the directory levels and the file name
structure_depth == Len(structure_split)

\* FSNode(dirs, files): dirs maps a name to a child node, files a name to
\* an item id
FSNode(dirs, files) == [dirs |-> dirs, files |-> files]

\* FSNode.getnode: descend from root along elements; KeyError when a
\* segment is no directory of the node reached
RECURSIVE getnode(_, _)
getnode(elements, root) ==
    IF Len(elements) = 0 THEN [ok |-> TRUE, node |-> root]
    ELSE IF Head(elements) \in DOMAIN root.dirs
    THEN getnode(Tail(elements), root.dirs[Head(elements)])
    ELSE Fail("KeyError")

\* directory_structure.getnode(pathsplit[0:structure_depth-1])
\*                    .files[pathsplit[structure_depth-1]]
\* (a path is modelled by its list of segments, path[1:].split('/'))
LookupId(tree, pathsplit) ==
    IF Len(pathsplit) < structure_depth THEN Fail("IndexError")
    ELSE LET n == getnode(Slice(pathsplit, 0, structure_depth - 1), tree)
         IN  IF ~n.ok THEN n
             ELSE IF pathsplit[structure_depth] \in DOMAIN n.node.files
             THEN [ok |-> TRUE, id |-> n.node.files[pathsplit[structure_depth]]]
             ELSE Fail("KeyError")

\* os.path.splitext(path)[1][1:].lower() of the paths of the model
Extension(pathsplit) ==
    LET name == pathsplit[Len(pathsplit)]
    IN  IF name \in {"t.flac", "x.flac"} THEN "flac"
        ELSE IF name = "u.mp3" THEN "mp3"
        ELSE ""

\* a dictionary with the entry key: value put into it
WithEntry(d, key, value) ==
    [k \in DOMAIN d \cup {key} |-> IF k = key THEN value ELSE d[k]]

\* the tree with the node that elements leads to replaced by what the
\* operation made of it
ReplaceChild(root, name, made) ==
    IF ~made.ok THEN made
    ELSE [ok |-> TRUE,
          node |-> FSNode(WithEntry(root.dirs, name, made.node), root.files)]

\* FSNode.adddir: the node is found with getnode (KeyError when a segment
\* of elements is no directory) and gets an empty child unless it has one
\* of the name.  Segments are never the empty string in the model.
RECURSIVE adddir(_, _, _)
adddir(root, elements, directory) ==
    IF Len(elements) = 0
    THEN [ok |-> TRUE,
          node |-> IF directory \in DOMAIN root.dirs THEN root
                   ELSE FSNode(WithEntry(root.dirs, directory,
                                         FSNode(<< >>, << >>)),
                               root.files)]
    ELSE IF Head(elements) \notin DOMAIN root.dirs THEN Fail("KeyError")
    ELSE ReplaceChild(root, Head(elements),
                      adddir(root.dirs[Head(elements)], Tail(elements),
                             directory))

\* a file map that keeps the id it has for the name
FileEnteredIfNew(files, filename, id) ==
    IF filename \in DOMAIN files THEN files ELSE WithEntry(files, filename, id)

\* node.files[filename] = id
FileEntered(files, filename, id) == WithEntry(files, filename, id)

\* FSNode.addfile: node.files[filename] = id in the node found with getnode
RECURSIVE addfile(_, _, _, _)
addfile(root, elements, filename, id) ==
    IF Len(elements) = 0
    THEN [ok |-> TRUE,
          node |-> FSNode(root.dirs, FileEntered(root.files, filename, id))]
    ELSE IF Head(elements) \notin DOMAIN root.dirs THEN Fail("KeyError")
    ELSE ReplaceChild(root, Head(elements),
                      addfile(root.dirs[Head(elements)], Tail(elements),
                              filename, id))

\* FSNode.listdir: the names of the directories, or of the files, of the
\* node found with getnode
Listed(found, directories) ==
    IF ~found.ok THEN found
    ELSE [ok |-> TRUE,
          names |-> IF directories THEN DOMAIN found.node.dirs
                    ELSE DOMAIN found.node.files]

listdir(root, elements, directories) ==
    Listed(getnode(elements, root), directories)

\* templates[level].substitute(mapping) for every level: a template is the
\* name of one field of the item
level_subbed(item, templates) ==
    [level \in 1..Len(templates) |-> item[templates[level]]]

RECURSIVE AddDirs(_, _, _)

\* an exception that ends mount(): the tree keeps what was built before
Aborted(tree, err) == [ok |-> FALSE, err |-> err, node |-> tree]

\* the next level, after an adddir that did not fail
AddDirsFrom(tree, made, subbed, level) ==
    IF ~made.ok THEN Aborted(tree, made.err)
    ELSE AddDirs(made.node, subbed, level + 1)

\* the loop over the directory levels in mount(), from level on, for one
\* item.  subbed[level + 1] is level_subbed[level].  getnode pops the
\* segments off the list it is given, and adddir hands it sub_elements
\* itself: the list is empty again after every adddir, so that at each
\* level it holds the segment of the level before and nothing else.
AddDirs(tree, subbed, level) ==
    IF level >= Len(subbed) - 1 THEN [ok |-> TRUE, node |-> tree]
    ELSE AddDirsFrom(tree,
                     adddir(tree,
                            IF level - 1 >= 0 THEN << subbed[level] >>
                            ELSE << >>,
                            subbed[level + 1]),
                     subbed, level)

\* the tree after addfile, or its exception
FileAdded(tree, made) ==
    IF ~made.ok THEN Aborted(tree, made.err) ELSE made

\* the file of the item: sub_elements, empty after the loop, gets
\* level_subbed[structure_depth-3] and level_subbed[structure_depth-2]
\* (KeyError when the dictionary has no such level) and the file is added
\* in the node they lead to
AddItemFile(made, subbed, id) ==
    IF ~made.ok THEN made
    ELSE IF Len(subbed) - 3 < 0 THEN Aborted(made.node, "KeyError")
    ELSE FileAdded(made.node,
                   addfile(made.node,
                           << subbed[Len(subbed) - 2],
                              subbed[Len(subbed) - 1] >>,
                           subbed[Len(subbed)], id))

\* the body of the loop over the items in mount()
AddItem(tree, subbed, id) == AddItemFile(AddDirs(tree, subbed, 0), subbed, id)

\* the loop over lib.items() in mount(): the tree, and the error that ends
\* mount() where it is raised
RECURSIVE AddItems(_, _, _, _)
AddItems(made, ids, rows, templates) ==
    IF ~made.ok \/ Len(ids) = 0 THEN made
    ELSE AddItems(AddItem(made.node,
                          level_subbed(rows[Head(ids)], templates),
                          Head(ids)),
                  Tail(ids), rows, templates)

----------------------------------------------------------------------------
(* FileHandler *)

\* the tag fields the composer reads and writes, in the order of the source
TagFields == << "title", "album", "artist", "genre" >>

KeyOf(field) ==
    CASE field = "title" -> TITLE
      [] field = "album" -> ALBUM
      [] field = "artist" -> ARTIST
      [] field = "genre" -> GENRE

\* self.inf["title"] = self.item.title, and so on for the four fields
RECURSIVE SetTags(_, _, _)
SetTags(blocks, item, fields) ==
    IF Len(fields) = 0 THEN blocks
    ELSE SetTags(SetTag(blocks, KeyOf(Head(fields)), item[Head(fields)]),
                 item, Tail(fields))

\* self.item.title = self.inf["title"][0], and so on: the fields are
\* assigned one by one and a missing tag raises KeyError where it is read
RECURSIVE ExtractTags(_, _, _)
ExtractTags(item, blocks, fields) ==
    IF Len(fields) = 0 THEN [ok |-> TRUE, item |-> item]
    ELSE LET v == GetTag(blocks, KeyOf(Head(fields)))
         IN  IF ~v.ok THEN [ok |-> FALSE, err |-> v.err, item |-> item]
             ELSE ExtractTags([item EXCEPT ![Head(fields)] = v.value],
                              blocks, Tail(fields))

\* the end of the flac branch of FileHandler.__init__: bound and
\* music_offset are the length of the header, and the payload is the real
\* file from music_offset on
FlacHandler(base, filedata, header) ==
    [ok |-> TRUE,
     handler |-> base @@
       [hasheader |-> TRUE, header |-> header, bound |-> Len(header),
        music_offset |-> Len(header),
        music_data |-> SliceFrom(filedata, Len(header))]]

\* the flac branch of FileHandler.__init__ with the tags of the real file
\* left as they are
FlacHandlerInitFileTags(base, item, filedata, inf) ==
    IF ~inf.ok THEN inf
    ELSE FlacHandler(base, filedata, get_header(filedata, inf.blocks))

\* the flac branch of FileHandler.__init__, inf being the decoded real
\* file: the four tags are overwritten from the item and the header encoded
FlacHandlerInit(base, item, filedata, inf) ==
    IF ~inf.ok THEN inf
    ELSE FlacHandler(base, filedata,
                     get_header(filedata, SetTags(inf.blocks, item, TagFields)))

\* FileHandler.__init__ from the item on: an mp3 path gets bound 0 and no
\* header attribute; any other extension leaves music_offset unset and
\* fails at the seek
FormatHandlerInit(id, item, filedata, format) ==
    LET base == [id |-> id, item |-> item, instance_count |-> 1,
                 format |-> format]
    IN  IF format = "flac"
        THEN FlacHandlerInit(base, item, filedata, load(filedata))
        ELSE IF format = "mp3"
        THEN [ok |-> TRUE,
              handler |-> base @@
                [hasheader |-> FALSE, header |-> << >>, bound |-> 0,
                 music_offset |-> 0, music_data |-> filedata]]
        ELSE Fail("AttributeError")

\* FileHandler.__init__: resolves the item, reads the real file and builds
\* the handler for the format of the path
FileHandlerInit(pathsplit, stored, real, tree) ==
    LET found == LookupId(tree, pathsplit)
    IN  IF ~found.ok THEN found
        ELSE FormatHandlerInit(found.id, stored[found.id], real[found.id],
                               Extension(pathsplit))

\* FileHandler.open
HandlerOpen(h) == [h EXCEPT !.instance_count = h.instance_count + 1]

\* FileHandler.release: the handler and the value returned (True asks the
\* file system to drop the handler)
HandlerRelease(h) ==
    IF h.instance_count > 0
    THEN [handler |-> [h EXCEPT !.instance_count = h.instance_count - 1],
          complete |-> FALSE]
    ELSE [handler |-> h, complete |-> TRUE]

\* JustHeader with the size left out of the test
JustHeaderIgnoringSize(h, size, offset) == offset < Len(h.header)

\* the test that sends a read inside the header to the JUST HEADER branch
JustHeader(h, size, offset) == offset + size < Len(h.header)

\* FileHandler.read with the header slice left open at its end
HandlerReadOpenSlice(h, size, offset) ==
    IF offset < h.bound
    THEN [ok |-> TRUE, data |-> Slice(h.header, offset, Len(h.header))]
    ELSE [ok |-> TRUE,
          data |-> Slice(h.music_data, offset - Len(h.header),
                         offset - Len(h.header) + size)]

\* FileHandler.read with the payload indexed by the offset in the stream
HandlerReadNoRebase(h, size, offset) ==
    IF offset < h.bound
    THEN [ok |-> TRUE, data |-> Slice(h.header, offset, offset + size)]
    ELSE [ok |-> TRUE, data |-> Slice(h.music_data, offset, offset + size)]

\* FileHandler.read
HandlerRead(h, size, offset) ==
    IF offset < h.bound
    THEN IF JustHeader(h, size, offset)
         THEN [ok |-> TRUE, data |-> Slice(h.header, offset, offset + size)]
         ELSE [ok |-> TRUE,
               data |-> Slice(h.header, offset, Len(h.header))
                          \o Slice(h.music_data, 0,
                                   size - (Len(h.header) - offset))]
    ELSE IF ~h.hasheader THEN Fail("AttributeError")
    ELSE [ok |-> TRUE,
          data |-> Slice(h.music_data, offset - Len(h.header),
                         offset - Len(h.header) + size)]

\* a value returned (or an exception raised) by an operation
Ret(kind, n, data, err) == [kind |-> kind, n |-> n, data |-> data, err |-> err]

RetNone == Ret("None", 0, << >>, "")

RetInt(n) == Ret("int", n, << >>, "")

RetBytes(d) == Ret("bytes", 0, d, "")

RetErrno(e) == Ret("errno", 0, << >>, e)

RetRaise(e) == Ret("raise", 0, << >>, e)

RetHandle == Ret("handle", 0, << >>, "")

\* the errors of load() that derive from IOError (mutagen.flac.error)
IOErrors == { "FLACNoHeaderError", "FLACVorbisError" }

\* filedata[0:offset] + buf + filedata[offset + len(buf):]
Overlay(filedata, offset, buf) ==
    Slice(filedata, 0, offset) \o buf \o SliceFrom(filedata, offset + Len(buf))

\* the test of FileHandler.write that admits a write
InHeader(h, offset) == offset < h.bound

\* lib.store(item) without lib.save()
StoreWithoutSave(lib, id, item) ==
    [stored |-> [lib.stored EXCEPT ![id] = item], saved |-> lib.saved]

\* lib.store(item) followed by lib.save(): the item's fields reach the
\* pending rows of the library, then the pending rows are committed
StoreAndSave(lib, id, item) ==
    LET stored == [lib.stored EXCEPT ![id] = item]
    IN  [stored |-> stored, saved |-> stored]

\* the end of FileHandler.write, x being the item after the four
\* assignments and header the new header: the handler takes the new
\* header, the library the item
WriteStored(h, lib, buf, x, header) ==
    [handler |-> [h EXCEPT !.item = x.item, !.header = header,
                           !.bound = Len(header),
                           !.music_offset = Len(header)],
     lib |-> StoreAndSave(lib, h.id, x.item),
     ret |-> RetInt(Len(buf))]

\* FileHandler.write after the assignments to the item: a KeyError leaves
\* the method with the item as far as it was assigned
WriteExtracted(h, lib, buf, filedata, inf, x) ==
    IF ~x.ok
    THEN [handler |-> [h EXCEPT !.item = x.item], lib |-> lib,
          ret |-> RetRaise(x.err)]
    ELSE WriteStored(h, lib, buf, x,
                     get_header(filedata,
                                SetTags(inf.blocks, x.item, TagFields)))

\* FileHandler.write after InterpolatedFLAC(filedata): an IOError is logged
\* and the method returns None, any other exception leaves the method
WriteDecoded(h, lib, buf, filedata, inf) ==
    IF ~inf.ok
    THEN [handler |-> h, lib |-> lib,
          ret |-> IF inf.err \in IOErrors THEN RetNone ELSE RetRaise(inf.err)]
    ELSE WriteExtracted(h, lib, buf, filedata, inf,
                        ExtractTags(h.item, inf.blocks, TagFields))

\* FileHandler.write with the patched stream
WritePatched(h, lib, buf, filedata) ==
    WriteDecoded(h, lib, buf, filedata, load(filedata))

\* FileHandler.write: the handler, the library and the result after the call
HandlerWrite(h, lib, offset, buf) ==
    IF InHeader(h, offset) /\ h.format = "flac"
    THEN WritePatched(h, lib, buf,
                      Overlay(h.header \o h.music_data, offset, buf))
    ELSE [handler |-> h, lib |-> lib, ret |-> RetNone]

----------------------------------------------------------------------------
(* The mounted file system *)

\* bounds of the model
MaxOpens == 3

MaxWrites == 2

MaxOffset == 50

MaxReadSize == 5

ReadWindow == 2

VARIABLES
    directory_structure, \* the FSNode tree built by mount
    realfile,            \* item id -> bytes of the real audio file
    lib,                 \* the library: stored (pending) and saved rows
    files,               \* beetFileSystem.files: path -> FileHandler
    opens,               \* path -> number of successful open calls
    releases,            \* path -> number of release calls
    nwrites,             \* number of writes that returned a byte count
    last,                \* the last call and its arguments
    ret,                 \* what the last call returned
    running              \* request slot -> the callback it is inside

vars == << structure_split, directory_structure, realfile, lib, files,
           opens, releases, nwrites, last, ret, running >>

\* bound of the model: the requests the kernel may have sent at one time
MaxThreads == 2

Threads == 1..MaxThreads

\* a request slot outside any callback, and inside one: seen is the
\* open-file map as the callback read it
Idle == [op |-> "idle", path |-> << >>, seen |-> << >>]

Inside(op, path, seen) == [op |-> op, path |-> path, seen |-> seen]

NoRequests == [t \in Threads |-> Idle]

\* the paths the calls of the model use, as segment lists
FlacPath == << "A", "B", "t.flac" >>

Mp3Path == << "A", "B", "u.mp3" >>

MissingPath == << "A", "B", "x.flac" >>

Paths == { FlacPath, Mp3Path, MissingPath }

FlacId == "item1"

Mp3Id == "item2"

\* real files of the model
StreamInfo == Block(StreamInfoCode, << 9 >>, 0, << >>, << >>)

Comments(title) ==
    Block(VCFLACDictCode, << >>, 0, << >>,
          << << TITLE, title >>, << ALBUM, << 66 >> >>,
             << ARTIST, << 67 >> >>, << GENRE, << 68 >> >> >>)

Audio == << 255, 248, 7, 8 >>

FlacFile(blocks) == fLaC \o writeblocks(blocks) \o Audio

LongTitle == [i \in 1..1026 |-> 65]

PlainFile == FlacFile(<< StreamInfo, Comments(<< 65 >>), Padding(3) >>)

\* a file whose magic is damaged
BadFile == << 1 >> \o PlainFile

\* a file that carries an ID3 tag of two bytes before the magic
ID3File == << 73, 68, 51, 3, 0, 0, 0, 0, 0, 2, 1, 1 >> \o PlainFile

\* a file without padding, and one whose title is longer than the padding
\* get_header appends
NoPaddingFile == FlacFile(<< StreamInfo, Comments(<< 65 >>) >>)

LongTitleFile == FlacFile(<< StreamInfo, Comments(LongTitle), Padding(3) >>)

SmallFiles == { PlainFile, BadFile, ID3File }

FlacFiles == SmallFiles \cup { NoPaddingFile, LongTitleFile }

Mp3File == << 255, 251, 1, 2, 3 >>

\* rows of the library
Item(title) ==
    [title |-> title, album |-> << 66 >>, artist |-> << 67 >>,
     genre |-> << 68 >>]

SmallTitles == { << 65 >>, << 65, 65 >> }

Titles == SmallTitles \cup { << 65, 65, 65, 65, 65 >> }

\* offset of the first byte of the title in the header of PlainFile: magic,
\* stream-info block, comment block header, vendor length, comment count,
\* entry length, key and '='
TitleOffset == Len(fLaC \o writeblocks(<< StreamInfo >>)) + 4 + 4 + 4 + 4 + 2

\* the byte strings the calls of the model write
WriteBufs == { << 66 >>, << 66, 3, 0, 0, 0, 9 >> }

NoCall ==
    [op |-> "none", path |-> << >>, fh |-> FALSE, size |-> 0, offset |-> 0,
     buf |-> << >>]

Call(op, path, fh, size, offset, buf) ==
    [op |-> op, path |-> path, fh |-> fh, size |-> size, offset |-> offset,
     buf |-> buf]

\* PATH_FORMAT, split at '/': two directory templates and the template of
\* the file name
PATH_FORMAT == << "artist", "album", "title" >>

InitWith(flacfiles, titles) ==
    /\ structure_split = PATH_FORMAT
    /\ directory_structure =
         FSNode("A" :> FSNode("B" :> FSNode(<< >>,
                                            ("t.flac" :> FlacId)
                                              @@ ("u.mp3" :> Mp3Id)),
                              << >>),
                << >>)
    /\ \E f \in flacfiles : realfile = (FlacId :> f) @@ (Mp3Id :> Mp3File)
    /\ \E t \in titles :
         LET rows == (FlacId :> Item(t)) @@ (Mp3Id :> Item(<< 69 >>))
         IN  lib = [stored |-> rows, saved |-> rows]
    /\ files = << >>
    /\ opens = [p \in Paths |-> 0]
    /\ releases = [p \in Paths |-> 0]
    /\ nwrites = 0
    /\ last = NoCall
    /\ ret = RetNone
    /\ running = NoRequests

\* the mounted file system over the small files, and over all of them
Init == InitWith(SmallFiles, SmallTitles)

InitAll == InitWith(FlacFiles, Titles)

\* self.files[path] = FileHandler(path, self.lib)
WithHandler(fs, path, h) == [q \in DOMAIN fs \cup {path} |->
                               IF q = path THEN h ELSE fs[q]]

\* del self.files[path]
WithoutHandler(fs, path) == [q \in DOMAIN fs \ {path} |-> fs[q]]

TotalOpens == opens[FlacPath] + opens[Mp3Path] + opens[MissingPath]

\* an outstanding handle: more successful opens than releases
Outstanding(path) == opens[path] > releases[path]

\* offsets the calls use: the start of the stream and a window around the
\* boundary and the end of the stream of an open file
Offsets(path) ==
    IF path \in DOMAIN files
    THEN LET h == files[path]
         IN  { o \in (h.bound - ReadWindow)
                       ..(h.bound + Len(h.music_data) + 1) : o >= 0 }
               \cup {0, 1}
    ELSE {0, 1}

Sizes(path) ==
    (0..MaxReadSize) \cup
    (IF path \in DOMAIN files
     THEN {files[path].bound + Len(files[path].music_data),
           Len(realfile[files[path].id])}
     ELSE {})

\* open with a failed FileHandler emptying the open-file map
OpenNewEmptying(fs, path, made) ==
    IF made.ok
    THEN [files |-> WithHandler(fs, path, made.handler), ret |-> RetHandle]
    ELSE [files |-> << >>, ret |-> RetErrno("EACCES")]

\* beetFileSystem.open with a new FileHandler, made being what
\* FileHandler.__init__ gave: the handler is entered and returned, and any
\* exception becomes -EACCES
OpenNew(fs, path, made) ==
    IF made.ok
    THEN [files |-> WithHandler(fs, path, made.handler), ret |-> RetHandle]
    ELSE [files |-> fs, ret |-> RetErrno("EACCES")]

\* beetFileSystem.open without the test for an entry of the path
FsOpenAlwaysNew(fs, stored, real, tree, path) ==
    OpenNew(fs, path, FileHandlerInit(path, stored, real, tree))

\* beetFileSystem.open: the files map and the value returned
FsOpen(fs, stored, real, tree, path) ==
    IF path \in DOMAIN fs
    THEN [files |-> [fs EXCEPT ![path] = HandlerOpen(@)], ret |-> RetHandle]
    ELSE OpenNew(fs, path, FileHandlerInit(path, stored, real, tree))

\* the files map after FileHandler.release returned r
Released(fs, path, r) ==
    [files |-> IF r.complete THEN WithoutHandler(fs, path)
               ELSE [fs EXCEPT ![path] = r.handler],
     ret |-> RetNone]

\* beetFileSystem.release
FsRelease(fs, path) ==
    IF path \notin DOMAIN fs
    THEN [files |-> fs, ret |-> RetRaise("KeyError")]
    ELSE Released(fs, path, HandlerRelease(fs[path]))

\* self.files[path] = FileHandler(path, self.lib) inside try / except
Replaced(fs, path, made) ==
    IF made.ok
    THEN [ok |-> TRUE, files |-> WithHandler(fs, path, made.handler)]
    ELSE [ok |-> FALSE, files |-> fs]

\* the first lines of beetFileSystem.read and write: without a file handle
\* a new FileHandler takes the place of the path's entry
Rebuild(fs, stored, real, tree, path, fh) ==
    IF fh THEN [ok |-> TRUE, files |-> fs]
    ELSE Replaced(fs, path, FileHandlerInit(path, stored, real, tree))

\* what beetFileSystem.read returns, r being what FileHandler.read gave
ReadResult(fs, r) ==
    [files |-> fs,
     ret |-> IF r.ok THEN RetBytes(r.data) ELSE RetRaise(r.err)]

\* beetFileSystem.read after its first lines
ReadRebuilt(fs, b, path, size, offset) ==
    IF ~b.ok THEN [files |-> fs, ret |-> RetErrno("EPERM")]
    ELSE IF path \notin DOMAIN b.files
    THEN [files |-> b.files, ret |-> RetRaise("KeyError")]
    ELSE ReadResult(b.files, HandlerRead(b.files[path], size, offset))

\* beetFileSystem.read; fh is TRUE when the call carries a file handle
FsRead(fs, stored, real, tree, path, size, offset, fh) ==
    ReadRebuilt(fs, Rebuild(fs, stored, real, tree, path, fh),
                path, size, offset)

\* what beetFileSystem.write returns, w being what FileHandler.write gave:
\* every exception of the call is logged and the method returns None.
\* raised is kept for the model's bound on block chains.
WriteResult(fs, path, w) ==
    [files |-> [fs EXCEPT ![path] = w.handler],
     lib |-> w.lib,
     ret |-> IF w.ret.kind = "raise" THEN RetNone ELSE w.ret,
     raised |-> w.ret.err]

\* beetFileSystem.write after its first lines
WriteRebuilt(fs, b, l, path, buf, offset) ==
    IF ~b.ok
    THEN [files |-> fs, lib |-> l, ret |-> RetErrno("EPERM"), raised |-> ""]
    ELSE IF path \notin DOMAIN b.files
    THEN [files |-> b.files, lib |-> l, ret |-> RetNone,
          raised |-> "KeyError"]
    ELSE WriteResult(b.files, path,
                     HandlerWrite(b.files[path], l, offset, buf))

\* beetFileSystem.write
FsWrite(fs, l, real, tree, path, buf, offset, fh) ==
    WriteRebuilt(fs, Rebuild(fs, l.stored, real, tree, path, fh),
                 l, path, buf, offset)

\* Stat.DIRSIZE
DIRSIZE == 4096

\* the values the directory operations return: the Stat of a directory and
\* of a real file, a node of the tree (named by its path) and the entries
\* readdir yields
RetDirStat == Ret("S_IFDIR", DIRSIZE, << >>, "")

RetFileStat(size) == Ret("S_IFREG", size, << >>, "")

RetNode(path) == Ret("node", 0, path, "")

RetEntries(names) == Ret("entries", 0, names, "")

\* pathsplit[0:len(pathsplit)-1] and pathsplit[len(pathsplit)-1]; the path
\* "/" is the empty list of segments
Front(pathsplit) == Slice(pathsplit, 0, Len(pathsplit) - 1)

Last(pathsplit) == pathsplit[Len(pathsplit)]

\* len(path[1:].split('/')): "/" splits into one empty segment
PyLen(pathsplit) == IF pathsplit = << >> THEN 1 ELSE Len(pathsplit)

\* getattr of a file: the Stat of the item's real file; the exception of a
\* failed lookup is caught and becomes -ENOENT
GetattrFile(found, real) ==
    IF ~found.ok THEN RetErrno("ENOENT")
    ELSE RetFileStat(Len(real[found.id]))

\* getattr of a directory
GetattrDir(found, name) ==
    IF ~found.ok THEN RetErrno("ENOENT")
    ELSE IF name \notin DOMAIN found.node.dirs THEN RetErrno("ENOENT")
    ELSE RetDirStat

\* beetFileSystem.getattr: a path of structure_depth segments is a file,
\* any other a directory
FsGetattr(real, tree, path) ==
    IF path = << >> THEN RetDirStat
    ELSE IF Len(path) = structure_depth
    THEN GetattrFile(LookupId(tree, path), real)
    ELSE GetattrDir(getnode(Front(path), tree), Last(path))

\* access to a directory and to a file: the lookups are outside any try
AccessDir(found, name) ==
    IF ~found.ok THEN RetRaise(found.err)
    ELSE IF name \notin DOMAIN found.node.dirs THEN RetErrno("EACCES")
    ELSE RetInt(0)

AccessFile(found) == IF ~found.ok THEN RetRaise(found.err) ELSE RetInt(0)

\* beetFileSystem.access
FsAccess(tree, path) ==
    IF path = << >> THEN RetInt(0)
    ELSE IF Len(path) # structure_depth
    THEN AccessDir(getnode(Front(path), tree), Last(path))
    ELSE AccessFile(LookupId(tree, path))

\* opendir below the root
OpendirAt(found, path) ==
    IF ~found.ok THEN RetRaise(found.err)
    ELSE IF Last(path) \notin DOMAIN found.node.dirs THEN RetErrno("EACCES")
    ELSE RetNode(path)

\* beetFileSystem.opendir: the node of the directory is the handle
FsOpendir(tree, path) ==
    IF path = << >> THEN RetNode(<< >>)
    ELSE OpendirAt(getnode(Front(path), tree), path)

\* the entries readdir always yields
Dots == { ".", ".." }

\* the entries of readdir: an exception ends the listing after the dots
ReaddirListed(listed) ==
    RetEntries(IF listed.ok THEN Dots \cup listed.names ELSE Dots)

\* beetFileSystem.readdir; dh is TRUE when the call carries the handle of
\* opendir.  Without it and below the root, pathsplit[len(pathsplit)]
\* raises IndexError.  A path of structure_depth - 1 segments lists its
\* files, any other its directories.
FsReaddir(tree, path, dh) ==
    IF ~dh /\ path # << >> THEN RetEntries(Dots)
    ELSE ReaddirListed(listdir(tree, path,
                               PyLen(path) # structure_depth - 1))

\* the operations that are not supported
UnsupportedOps ==
    { "readlink", "mknod", "mkdir", "unlink", "rmdir", "symlink", "link",
      "rename", "chmod", "chown", "truncate", "ftruncate", "create",
      "utime", "utimens" }

\* an operation that is no method of the class is answered with ENOSYS
FsUnsupportedIfDefined(op) ==
    IF op \in { "utime", "utimens" } THEN RetErrno("EOPNOTSUPP")
    ELSE RetErrno("ENOSYS")

\* utime, utimens, readlink, mknod, mkdir, unlink, rmdir, symlink, link,
\* rename, chmod, chown, truncate, create and ftruncate: each logs the call
\* and returns -errno.EOPNOTSUPP
FsUnsupported(op) == RetErrno("EOPNOTSUPP")

\* the real files with the stream of the path's handler written back
RealFilesFlushed(real, fs, path) ==
    IF path \in DOMAIN fs /\ fs[path].hasheader
    THEN [real EXCEPT ![fs[path].id] = fs[path].header \o fs[path].music_data]
    ELSE real

\* the real files after a write: FileHandler.__init__ opens file_object with
\* 'r+', reads it and closes it, and FileHandler.write works on header and
\* music_data in memory; nothing is written to a real file
RealFilesAfter(real, fs, path) == real

\* the tree emptied when the saved rows of the library change
TreeDroppedOnStore(tree, saved, stored) ==
    IF stored = saved THEN tree ELSE FSNode(<< >>, << >>)

\* the tree after lib.store and lib.save: directory_structure is built by
\* mount() alone and write does not touch it
TreeAfterStore(tree, saved, stored) == tree

\* beetFileSystem.flush and fsync: the call is logged and None returned
FsFlush == RetNone

FsFsync == RetNone

Open(path) ==
    /\ TotalOpens < MaxOpens
    /\ \E r \in {FsOpen(files, lib.stored, realfile, directory_structure,
                        path)} :
         /\ files' = r.files
         /\ ret' = r.ret
         /\ opens' = IF r.ret = RetHandle
                     THEN [opens EXCEPT ![path] = @ + 1] ELSE opens
    /\ last' = Call("open", path, FALSE, 0, 0, << >>)
    /\ UNCHANGED << structure_split, running, directory_structure, realfile,
                    lib,
                    releases, nwrites >>

\* release is called for a handle that open returned
Release(path) ==
    /\ Outstanding(path)
    /\ \E r \in {FsRelease(files, path)} :
         /\ files' = r.files
         /\ ret' = r.ret
    /\ releases' = [releases EXCEPT ![path] = @ + 1]
    /\ last' = Call("release", path, TRUE, 0, 0, << >>)
    /\ UNCHANGED << structure_split, running, directory_structure, realfile,
                    lib,
                    opens, nwrites >>

\* a call with a file handle needs an outstanding handle
Read(path, size, offset, fh) ==
    /\ fh => Outstanding(path)
    /\ \E r \in {FsRead(files, lib.stored, realfile, directory_structure,
                        path, size, offset, fh)} :
         /\ files' = r.files
         /\ ret' = r.ret
    /\ last' = Call("read", path, fh, size, offset, << >>)
    /\ UNCHANGED << structure_split, running, directory_structure, realfile,
                    lib,
                    opens, releases, nwrites >>

Write(path, buf, offset, fh) ==
    /\ fh => Outstanding(path)
    /\ nwrites < MaxWrites
    /\ \E r \in {FsWrite(files, lib, realfile, directory_structure, path,
                         buf, offset, fh)} :
         /\ r.raised # TooManyBlocks
         /\ files' = r.files
         /\ lib' = r.lib
         /\ ret' = r.ret
         /\ nwrites' = IF r.ret.kind = "int" THEN nwrites + 1 ELSE nwrites
         /\ realfile' = RealFilesAfter(realfile, r.files, path)
         /\ directory_structure'
              = TreeAfterStore(directory_structure, lib.saved, r.lib.saved)
    /\ last' = Call("write", path, fh, 0, offset, buf)
    /\ UNCHANGED << structure_split, running, opens, releases >>

WriteOffsets(path) == (0..MaxOffset) \cup Offsets(path)

\* the read and write calls of the file system at large: a read at the
\* start and one across the boundary, a write inside the header and one at
\* the boundary
ReadSome ==
    \E p \in Paths, fh \in BOOLEAN :
      \E offset \in IF p \in DOMAIN files /\ files[p].bound > 0
                    THEN {files[p].bound - 1} ELSE {0} :
         Read(p, MaxReadSize, offset, fh)

WriteSome ==
    \E p \in Paths, fh \in BOOLEAN :
      \E offset \in {TitleOffset} \cup (IF p \in DOMAIN files
                                        THEN {files[p].bound} ELSE {}) :
         Write(p, << 66 >>, offset, fh)

Next ==
    \/ \E p \in Paths : Open(p)
    \/ \E p \in Paths : Release(p)
    \/ ReadSome
    \/ WriteSome

Spec == Init /\ [][Next]_vars

\* the paths the reads go to: one file of each format
ReadPaths == {FlacPath, Mp3Path}

\* reads of every size at every offset of the window, on the open files
ReadAll ==
    \E p \in ReadPaths, fh \in {TRUE} :
      \E size \in Sizes(p), offset \in Offsets(p) :
         Read(p, size, offset, fh)

NextRead == (\E p \in ReadPaths : Open(p)) \/ ReadAll

SpecRead == InitAll /\ [][NextRead]_vars

\* writes of every buffer at every offset, on the open flac file; a caller
\* whose write returned no byte count makes another call before it writes
\* again
WriteAll ==
    /\ ~(last.op = "write" /\ ret.kind # "int")
    /\ \E fh \in {TRUE} :
         \E buf \in WriteBufs, offset \in WriteOffsets(FlacPath) :
            Write(FlacPath, buf, offset, fh)

NextWrite == Open(FlacPath) \/ WriteAll

SpecWrite == InitAll /\ [][NextWrite]_vars

\* bound of the model: the longest block chain of the files that are built
\* from every sequence of block kinds
MaxChain == 3

\* a seek-table, a cue-sheet and an application block (code 2, for which
\* METADATA_BLOCKS holds None) with opaque payloads
SeekTable == Block(SeekTableCode, << 5 >>, 0, << >>, << >>)

CueSheet == Block(CueSheetCode, << 6 >>, 0, << >>, << >>)

ApplicationCode == 2

Application == Block(ApplicationCode, << 7 >>, 0, << >>, << >>)

BlockKinds ==
    { StreamInfo, Comments(<< 65 >>), SeekTable, CueSheet, Padding(3),
      Application }

\* every chain of one to MaxChain blocks
Chains == UNION { [1..n -> BlockKinds] : n \in 1..MaxChain }

\* the real flac file is any chain followed by audio frames
InitDecode == InitWith({ FlacFile(c) : c \in Chains }, { << 65 >> })

NextDecode == Open(FlacPath)

SpecDecode == InitDecode /\ [][NextDecode]_vars

\* bound of the model: the deepest PATH_FORMAT mount() is run with
MaxDepth == 4

\* the fields the templates of a PATH_FORMAT name, and the values the
\* items have in them
TemplateFields == { "artist", "album", "title" }

Names == { "A", "B" }

PathFormats == UNION { [1..n -> TemplateFields] : n \in 1..MaxDepth }

\* lib.items(), in the order mount() goes through them
ItemIds == << FlacId, Mp3Id >>

Libraries ==
    UNION { [{ ItemIds[i] : i \in 1..n } -> [TemplateFields -> Names]] :
              n \in 0..Len(ItemIds) }

\* the ids of a library in the order of lib.items()
IdsOf(rows) == SelectSeq(ItemIds, LAMBDA id : id \in DOMAIN rows)

\* the state mount() starts from: the globals structure_split and library
\* are set and directory_structure is an empty node
InitMount ==
    /\ structure_split \in PathFormats
    /\ directory_structure = FSNode(<< >>, << >>)
    /\ realfile = (FlacId :> PlainFile) @@ (Mp3Id :> Mp3File)
    /\ \E rows \in Libraries : lib = [stored |-> rows, saved |-> rows]
    /\ files = << >>
    /\ opens = [p \in Paths |-> 0]
    /\ releases = [p \in Paths |-> 0]
    /\ nwrites = 0
    /\ last = NoCall
    /\ ret = RetNone
    /\ running = NoRequests

\* mount(): every item of the library is entered in the tree; an exception
\* of the loop ends the call
Mount ==
    /\ last.op = "none"
    /\ \E made \in {AddItems([ok |-> TRUE, node |-> directory_structure],
                             IdsOf(lib.stored), lib.stored,
                             structure_split)} :
         /\ directory_structure' = made.node
         /\ ret' = IF made.ok THEN RetNone ELSE RetRaise(made.err)
    /\ last' = Call("mount", << >>, FALSE, 0, 0, << >>)
    /\ UNCHANGED << structure_split, running, realfile, lib, files, opens,
                    releases,
                    nwrites >>

NextMount == Mount

SpecMount == InitMount /\ [][NextMount]_vars

\* mount() with the PATH_FORMAT of the source
InitMountFormat == InitMount /\ structure_split = PATH_FORMAT

SpecMountFormat == InitMountFormat /\ [][NextMount]_vars

\* bounds of the model: the longest path of a call, and the handlers the
\* calls on these paths open
MaxSegments == 4

MaxHandlers == 2

\* the segments of the paths: the names of the tree, each absent from the
\* nodes it is not entered in
SegNames == { "A", "B", "t.flac" }

QueryPaths == UNION { [1..n -> SegNames] : n \in 0..MaxSegments }

\* a call that returns r and changes no state
Query(op, path, fh, r) ==
    /\ ret' = r
    /\ last' = Call(op, path, fh, 0, 0, << >>)
    /\ UNCHANGED << structure_split, running, directory_structure, realfile,
                    lib,
                    files, opens, releases, nwrites >>

Getattr(path) ==
    Query("getattr", path, FALSE,
          FsGetattr(realfile, directory_structure, path))

Access(path) == Query("access", path, FALSE, FsAccess(directory_structure, path))

Opendir(path) ==
    Query("opendir", path, FALSE, FsOpendir(directory_structure, path))

Readdir(path, dh) ==
    Query("readdir", path, dh, FsReaddir(directory_structure, path, dh))

\* open on any path, while the model has room for a handler
OpenAt(path) ==
    /\ path \notin DOMAIN files
    /\ Cardinality(DOMAIN files) < MaxHandlers
    /\ \E r \in {FsOpen(files, lib.stored, realfile, directory_structure,
                        path)} :
         /\ files' = r.files
         /\ ret' = r.ret
    /\ last' = Call("open", path, FALSE, 0, 0, << >>)
    /\ UNCHANGED << structure_split, running, directory_structure, realfile,
                    lib,
                    opens, releases, nwrites >>

\* the mounted file system over one file
InitTree == InitWith({ PlainFile }, { << 65 >> })

NextTree ==
    \/ \E p \in QueryPaths : Getattr(p)
    \/ \E p \in QueryPaths : Access(p)
    \/ \E p \in QueryPaths : Opendir(p)
    \/ \E p \in QueryPaths, dh \in BOOLEAN : Readdir(p, dh)
    \/ \E p \in QueryPaths : OpenAt(p)

SpecTree == InitTree /\ [][NextTree]_vars

\* an unsupported operation on a path
Unsupported(op, path) == Query(op, path, FALSE, FsUnsupported(op))

\* the unsupported operations among opens, releases and writes of the
\* title
NextUnsupported ==
    \/ \E p \in ReadPaths : Open(p)
    \/ \E p \in ReadPaths : Release(p)
    \/ \E fh \in {TRUE} : Write(FlacPath, << 66 >>, TitleOffset, fh)
    \/ \E op \in UnsupportedOps, p \in Paths : Unsupported(op, p)

SpecUnsupported == InitTree /\ [][NextUnsupported]_vars

Flush(path) == Query("flush", path, TRUE, FsFlush)

Fsync(path) == Query("fsync", path, TRUE, FsFsync)

\* the paths of the directory operations among the file operations: the
\* root, the two directories and the files
FramePaths == Paths \cup { << >>, << "A" >>, << "A", "B" >> }

\* the file operations on the flac and the mp3 file, with reads at the start
\* of the flac file and writes of its title, among flushes, syncs and the
\* directory operations
NextFrame ==
    \/ \E p \in ReadPaths : Open(p)
    \/ \E p \in ReadPaths : Release(p)
    \/ \E fh \in BOOLEAN : Read(FlacPath, MaxReadSize, 0, fh)
    \/ \E fh \in {TRUE} : Write(FlacPath, << 66 >>, TitleOffset, fh)
    \/ \E p \in ReadPaths : Flush(p)
    \/ \E p \in ReadPaths : Fsync(p)
    \/ \E p \in FramePaths : Getattr(p)
    \/ \E p \in FramePaths : Access(p)
    \/ \E p \in FramePaths : Opendir(p)
    \/ \E p \in FramePaths, dh \in BOOLEAN : Readdir(p, dh)

SpecFrame == InitTree /\ [][NextFrame]_vars

\* the paths of the opens: the files, a file that is absent, a directory
\* that is absent, paths with too few segments and one with too many
OpenPaths ==
    Paths \cup { << "A" >>, << "A", "B" >>, << "B", "A", "t.flac" >>,
                 << "A", "B", "t.flac", "t.flac" >> }

\* opens of the two files and of every path of OpenPaths, over a flac file
\* that decodes and one that does not
InitOpen == InitWith({ PlainFile, BadFile }, { << 65 >> })

NextOpen ==
    \/ \E p \in ReadPaths : Open(p)
    \/ \E p \in OpenPaths : OpenAt(p)

SpecOpen == InitOpen /\ [][NextOpen]_vars

\* a loop that takes a request whenever one is there
DispatchableAnytime(slots) == TRUE

\* server.multithreaded = 0: the loop of the file system takes the next
\* request when no callback is running
Dispatchable(slots) == \A t \in Threads : slots[t].op = "idle"

InFlight == { t \in Threads : running[t].op # "idle" }

\* the loop hands a request to its callback, which reads self.files
Enter(t, op, path) ==
    /\ Dispatchable(running)
    /\ running[t].op = "idle"
    /\ running' = [running EXCEPT ![t] = Inside(op, path, files)]

EnterOpen(t, path) ==
    /\ TotalOpens + Cardinality({ u \in Threads : running[u].op = "open" })
         < MaxOpens
    /\ Enter(t, "open", path)
    /\ UNCHANGED << structure_split, directory_structure, realfile, lib,
                    files, opens, releases, nwrites, last, ret >>

\* release is sent for a handle that open returned
EnterRelease(t, path) ==
    /\ Outstanding(path)
    /\ Enter(t, "release", path)
    /\ releases' = [releases EXCEPT ![path] = @ + 1]
    /\ UNCHANGED << structure_split, directory_structure, realfile, lib,
                    files, opens, nwrites, last, ret >>

\* the callback stores the entry of its path, or deletes it, and returns
Stored(fs, made, path) ==
    IF path \in DOMAIN made THEN WithHandler(fs, path, made[path])
    ELSE WithoutHandler(fs, path)

Return(t, op, r) ==
    /\ running[t].op = op
    /\ files' = Stored(files, r.files, running[t].path)
    /\ ret' = r.ret
    /\ last' = Call(op, running[t].path, op = "release", 0, 0, << >>)
    /\ running' = [running EXCEPT ![t] = Idle]

ReturnOpen(t) ==
    /\ \E r \in {FsOpen(running[t].seen, lib.stored, realfile,
                        directory_structure, running[t].path)} :
         /\ Return(t, "open", r)
         /\ opens' = IF r.ret = RetHandle
                     THEN [opens EXCEPT ![running[t].path] = @ + 1]
                     ELSE opens
    /\ UNCHANGED << structure_split, directory_structure, realfile, lib,
                    releases, nwrites >>

ReturnRelease(t) ==
    /\ Return(t, "release", FsRelease(running[t].seen, running[t].path))
    /\ UNCHANGED << structure_split, directory_structure, realfile, lib,
                    opens, releases, nwrites >>

\* opens and releases of several requests
NextThreads ==
    \/ \E t \in Threads, p \in Paths : EnterOpen(t, p)
    \/ \E t \in Threads, p \in Paths : EnterRelease(t, p)
    \/ \E t \in Threads : ReturnOpen(t)
    \/ \E t \in Threads : ReturnRelease(t)

SpecThreads == Init /\ [][NextThreads]_vars

\* the chains that start with a stream-info block
HeadedChains == { c \in Chains : c[1] = StreamInfo }

\* what a stream holds after the chain: bytes between the chain and the
\* audio frames, and bytes after the audio frames, here none or one more
\* block
Endings ==
    { << << >>, << >> >>,
      << << >>, writeblocks(<< Padding(3) >>) >>,
      << writeblocks(<< Padding(3) >>), << >> >> }

Stream(chain, ending) ==
    fLaC \o writeblocks(chain) \o ending[1] \o Audio \o ending[2]

InitChain ==
    InitWith({ Stream(c, e) : c \in HeadedChains, e \in Endings },
             { << 65 >> })

SpecChain == InitChain /\ [][NextDecode]_vars

\* offset of the header of the padding block in the header of PlainFile
PaddingOffset ==
    Len(fLaC \o writeblocks(<< StreamInfo, Comments(<< 65 >>) >>))

\* byte strings that rewrite the end of the header of PlainFile: the
\* padding block with a payload of one byte and the is-last flag, one zero
\* and the frame sync; and the same without the is-last flag
ResizeBufs ==
    { << 128 + PaddingCode, 0, 0, 1, 0, 255, 248 >>,
      << PaddingCode, 0, 0, 1, 0, 255, 248 >> }

\* opens, releases and writes of the flac file, with and without a file
\* handle: of a title byte, and of a padding block of another length
NextResize ==
    \/ Open(FlacPath)
    \/ Release(FlacPath)
    \/ \E fh \in BOOLEAN : Write(FlacPath, << 66 >>, TitleOffset, fh)
    \/ \E fh \in BOOLEAN, buf \in ResizeBufs :
         Write(FlacPath, buf, PaddingOffset, fh)

SpecResize == Init /\ [][NextResize]_vars

(* Path templates: text is a sequence of characters *)

LowerCase == << "a", "b", "c", "d", "e", "f", "g", "h", "i", "j", "k", "l", "m",
              "n", "o", "p", "q", "r", "s", "t", "u", "v", "w", "x", "y", "z" >>

UpperCase == << "A", "B", "C", "D", "E", "F", "G", "H", "I", "J", "K", "L", "M",
              "N", "O", "P", "Q", "R", "S", "T", "U", "V", "W", "X", "Y", "Z" >>

Digits == << "0", "1", "2", "3", "4", "5", "6", "7", "8", "9" >>

Range(s) == { s[i] : i \in 1..Len(s) }

\* str.upper on the letters a to z
UpperChar(c) ==
    IF c \in Range(LowerCase)
    THEN UpperCase[CHOOSE i \in 1..Len(LowerCase) : LowerCase[i] = c]
    ELSE c

upper(text) == [i \in 1..Len(text) |-> UpperChar(text[i])]

RECURSIVE str(_)

\* str(value) of an int that is not negative
str(n) ==
    IF n < 10 THEN << Digits[n + 1] >>
    ELSE str(n \div 10) \o << Digits[(n % 10) + 1] >>

\* '%02i' % value left without its zeros
unpadded(n) == str(n)

\* '%02i' % value
padded(n) == IF n < 10 THEN << "0" >> \o str(n) ELSE str(n)

\* re.sub(r'[\\/:]|^\.', '_', value)
sanitized(value) ==
    [i \in 1..Len(value) |->
       IF value[i] \in { "\\", "/", ":" } \/ (i = 1 /\ value[i] = ".")
       THEN "_" ELSE value[i]]

\* str.rfind of one character, as a 1-based position (0: not found)
rfind(text, c) ==
    LET at == { i \in 1..Len(text) : text[i] = c }
    IN  IF at = {} THEN 0 ELSE CHOOSE i \in at : \A j \in at : j <= i

\* os.path.splitext(path)[1]: from the last dot of the last component on,
\* unless only dots come before it in that component
splitext(path) ==
    LET sep == rfind(path, "/")
        dot == rfind(path, ".")
    IN  IF dot > sep /\ (\E i \in (sep + 1)..(dot - 1) : path[i] # ".")
        THEN SliceFrom(path, dot - 1) ELSE << >>

\* the keys of METADATA_KEYS whose values are padded with zeros
PaddedKeys == { "track", "tracktotal", "disc", "disctotal" }

\* the keys of METADATA_KEYS that hold text
TextKeys == { "title", "artist", "album", "genre", "grouping", "lyrics",
              "comments" }

UnknownArtist == << "U", "n", "k", "n", "o", "w", "n", " ",
                   "A", "r", "t", "i", "s", "t" >>

UnknownAlbum == << "U", "n", "k", "n", "o", "w", "n", " ",
                  "A", "l", "b", "u", "m" >>

UnknownYear == << "U", "n", "k", "n", "o", "w", "n", " ", "Y", "e", "a", "r" >>

UnknownTrack == << "U", "n", "k", "n", "o", "w", "n", " ",
                  "T", "r", "a", "c", "k" >>

\* a mapping left as the loop over the keys made it
dud_entries(mapping) == mapping

\* "fix dud entries"
fix_dud_entries(mapping) ==
    [key \in DOMAIN mapping |->
       CASE key = "artist" /\ mapping[key] = << >> -> UnknownArtist
         [] key = "album" /\ mapping[key] = << >> -> UnknownAlbum
         [] key = "year" /\ mapping[key] = << "0" >> -> UnknownYear
         [] key = "title" /\ mapping[key] = << >> -> UnknownTrack
         [] OTHER -> mapping[key]]

\* template_mapping: an item is a record of the metadata fields the model
\* keeps and the path of its file
template_mapping(item) ==
    LET format_ == SliceFrom(splitext(item.path), 1)
    IN  fix_dud_entries(
          [key \in (DOMAIN item \ { "path" }) \cup { "format", "format_upper" }
             |-> CASE key = "format" -> sanitized(format_)
                   [] key = "format_upper" -> upper(sanitized(format_))
                   [] key \in TextKeys -> sanitized(item[key])
                   [] key \in PaddedKeys -> padded(item[key])
                   [] OTHER -> str(item[key])])

\* how the keys are written in a template
Spelling ==
    [title |-> << "t", "i", "t", "l", "e" >>,
     artist |-> << "a", "r", "t", "i", "s", "t" >>,
     album |-> << "a", "l", "b", "u", "m" >>,
     genre |-> << "g", "e", "n", "r", "e" >>,
     year |-> << "y", "e", "a", "r" >>,
     track |-> << "t", "r", "a", "c", "k" >>,
     format |-> << "f", "o", "r", "m", "a", "t" >>,
     format_upper |-> << "f", "o", "r", "m", "a", "t", "_",
                      "u", "p", "p", "e", "r" >>]

\* string.Template: an identifier starts with a letter or an underscore and
\* goes on with letters, digits and underscores
IdentStart == Range(LowerCase) \cup Range(UpperCase) \cup { "_" }

IdentChars == IdentStart \cup Range(Digits)

\* the position after the identifier that starts at position i (i itself
\* when none starts there)
IdentEnd(template, i) ==
    IF i > Len(template) \/ template[i] \notin IdentStart THEN i
    ELSE LET stops == { j \in (i + 1)..Len(template) :
                          template[j] \notin IdentChars }
         IN  IF stops = {} THEN Len(template) + 1
             ELSE CHOOSE j \in stops : \A k \in stops : j <= k

\* mapping[name] of substitute
Named(name, mapping) ==
    IF \E key \in DOMAIN mapping : Spelling[key] = name
    THEN [ok |-> TRUE,
          text |-> mapping[CHOOSE key \in DOMAIN mapping :
                             Spelling[key] = name]]
    ELSE Fail("KeyError")

RECURSIVE substitute_from(_, _, _)

\* name put in front of the rest of the template from position i on
Substituted(template, i, mapping, name) ==
    LET value == Named(name, mapping)
        rest == substitute_from(template, i, mapping)
    IN  IF ~value.ok THEN value
        ELSE IF ~rest.ok THEN rest
        ELSE [ok |-> TRUE, text |-> value.text \o rest.text]

\* Template(template).substitute(mapping) from position i on: $$ is a
\* dollar, $name and ${name} are replaced, any other $ is a ValueError
substitute_from(template, i, mapping) ==
    IF i > Len(template) THEN [ok |-> TRUE, text |-> << >>]
    ELSE IF template[i] # "$" \/ (i < Len(template) /\ template[i + 1] = "$")
    THEN LET rest == substitute_from(template,
                                     IF template[i] = "$" THEN i + 2
                                     ELSE i + 1, mapping)
         IN  IF ~rest.ok THEN rest
             ELSE [ok |-> TRUE, text |-> << template[i] >> \o rest.text]
    ELSE IF IdentEnd(template, i + 1) > i + 1
    THEN Substituted(template, IdentEnd(template, i + 1), mapping,
                     SubSeq(template, i + 1, IdentEnd(template, i + 1) - 1))
    ELSE IF /\ i < Len(template)
            /\ template[i + 1] = "{"
            /\ IdentEnd(template, i + 2) > i + 2
            /\ IdentEnd(template, i + 2) <= Len(template)
            /\ template[IdentEnd(template, i + 2)] = "}"
    THEN Substituted(template, IdentEnd(template, i + 2) + 1, mapping,
                     SubSeq(template, i + 2, IdentEnd(template, i + 2) - 1))
    ELSE Fail("ValueError")

substitute(template, mapping) == substitute_from(template, 1, mapping)

RECURSIVE split(_, _)

\* str.split(sep) for a separator of one character
split(text, sep) ==
    LET at == { i \in 1..Len(text) : text[i] = sep }
    IN  IF at = {} THEN << text >>
        ELSE LET first == CHOOSE i \in at : \A j \in at : i <= j
             IN  << SubSeq(text, 1, first - 1) >>
                   \o split(SubSeq(text, first + 1, Len(text)), sep)

\* PATH_FORMAT as it is written
PathFormatText ==
    << "$", "a", "r", "t", "i", "s", "t", "/", "$", "a", "l", "b",
       "u", "m", " ", "(", "$", "y", "e", "a", "r", ")", " ", "[",
       "$", "f", "o", "r", "m", "a", "t", "_", "u", "p", "p", "e",
       "r", "]", "/", "$", "t", "r", "a", "c", "k", " ", "-", " ",
       "$", "a", "r", "t", "i", "s", "t", " ", "-", " ", "$", "t",
       "i", "t", "l", "e", ".", "$", "f", "o", "r", "m", "a", "t" >>

\* the template of the example
ExampleFormatText ==
    << "$", "a", "r", "t", "i", "s", "t", "/", "$", "a", "l", "b",
       "u", "m", " ", "(", "$", "y", "e", "a", "r", ")", "/", "$",
       "t", "r", "a", "c", "k", " ", "-", " ", "$", "t", "i", "t",
       "l", "e", ".", "$", "f", "o", "r", "m", "a", "t" >>

\* the level_subbed of mount() for one item: the mapping of the item and
\* the substitution of every level, or the exception raised
Resolved(item, templates) ==
    LET mapping == template_mapping(item)
        levels == [level \in 1..Len(templates) |->
                     substitute(templates[level], mapping)]
    IN  IF \E level \in 1..Len(templates) : ~levels[level].ok
        THEN Fail(levels[CHOOSE level \in 1..Len(templates) :
                           /\ ~levels[level].ok
                           /\ \A l \in 1..(level - 1) : levels[l].ok].err)
        ELSE [ok |-> TRUE, mapping |-> mapping,
              segments |-> [level \in 1..Len(templates) |->
                              levels[level].text]]

\* the items of the template model
ExampleItem ==
    [title |-> << "T" >>, artist |-> << "A" >>, album |-> << "B" >>,
     genre |-> << "G" >>, year |-> 2001, track |-> 1,
     path |-> << "m", "/", "x", ".", "f", "l", "a", "c" >>]

TemplateItems ==
    [title : { << >>, << "T" >> },
     artist : { << >>, << "A" >>, << ".", "/" >> },
     album : { << >>, << "B" >> },
     genre : { << "G" >> },
     year : { 0, 2001 },
     track : { 1, 12 },
     path : { << "m", "/", "x", ".", "f", "l", "a", "c" >>,
              << "y", ".", "m", "p", "3" >> }]

InitTemplate ==
    /\ structure_split \in { split(PathFormatText, "/"),
                             split(ExampleFormatText, "/") }
    /\ directory_structure = FSNode(<< >>, << >>)
    /\ realfile = (FlacId :> PlainFile) @@ (Mp3Id :> Mp3File)
    /\ \E first \in TemplateItems :
         \E second \in { first, ExampleItem } :
            LET rows == (FlacId :> first) @@ (Mp3Id :> second)
            IN  lib = [stored |-> rows, saved |-> rows]
    /\ files = << >>
    /\ opens = [p \in Paths |-> 0]
    /\ releases = [p \in Paths |-> 0]
    /\ nwrites = 0
    /\ last = NoCall
    /\ ret = RetNone
    /\ running = NoRequests

\* the substitutions of mount() for every item of the library
Substitute ==
    /\ last.op = "none"
    /\ ret' = Ret("segments", 0,
                  [id \in DOMAIN lib.stored |->
                     Resolved(lib.stored[id], structure_split)], "")
    /\ last' = Call("substitute", << >>, FALSE, 0, 0, << >>)
    /\ UNCHANGED << structure_split, running, directory_structure, realfile,
                    lib, files, opens, releases, nwrites >>

NextTemplate == Substitute

SpecTemplate == InitTemplate /\ [][NextTemplate]_vars

----------------------------------------------------------------------------
(* Claims *)

\* the last call was a read of an open flac file
FlacRead ==
    /\ last.op = "read"
    /\ last.path \in DOMAIN files
    /\ files[last.path].format = "flac"

\* C1: a read of an open flac file with offset < boundary < offset + size
\* returns the header bytes from offset to the boundary followed by the
\* first size - (boundary - offset) payload bytes
C1_SeamRead ==
    FlacRead =>
      LET h == files[last.path]
          n == last.size - (h.bound - last.offset)
      IN  (last.offset < h.bound /\ h.bound < last.offset + last.size) =>
            ret = RetBytes(
                    [k \in 1..(h.bound - last.offset)
                       |-> h.header[last.offset + k]]
                    \o [k \in 1..Min(n, Len(h.music_data))
                          |-> h.music_data[k]])

\* a read across the boundary that returned header and payload bytes
C1_Witness ==
    /\ FlacRead
    /\ last.offset < files[last.path].bound - 1
    /\ files[last.path].bound + 1 < last.offset + last.size
    /\ ret.kind = "bytes"
    /\ Len(ret.data) = last.size

\* the last call was a read of an open file of either format
OpenFileRead ==
    /\ last.op = "read"
    /\ last.path \in DOMAIN files

\* a read with offset + size <= boundary returned header[offset : offset +
\* size]
HeaderSlice(h) ==
    (last.offset + last.size <= h.bound) =>
      ret = RetBytes([k \in 1..last.size |-> h.header[last.offset + k]])

\* on a Format-A file a read up to the boundary returns the header slice
FlacHeaderRead == FlacRead => HeaderSlice(files[last.path])

\* C2: a read of an open file with offset >= 0, size >= 0 and
\* offset + size <= boundary returns header[offset : offset + size] and no
\* payload byte
C2_HeaderRead == OpenFileRead => HeaderSlice(files[last.path])

\* a read of several bytes that ends exactly at the boundary
FlacHeaderReadWitness ==
    /\ FlacRead
    /\ last.size > 1
    /\ last.offset + last.size = files[last.path].bound
    /\ Len(ret.data) = last.size

\* a read at offset >= boundary returned
\* payload[offset - boundary : offset - boundary + size], a read returned
\* fewer than size bytes only when offset + size passes the end of the
\* stream, and nothing at or past the end
PayloadSlice(h) ==
    LET end == h.bound + Len(h.music_data)
    IN  /\ ret.kind = "bytes"
        /\ last.offset >= h.bound =>
             ret.data = [k \in 1..Max(0, Min(last.size, end - last.offset))
                           |-> h.music_data[last.offset - h.bound + k]]
        /\ Len(ret.data) < last.size => last.offset + last.size > end
        /\ Len(ret.data) <= last.size
        /\ last.offset >= end => ret.data = << >>

\* on a Format-A file a read in the payload returns the payload slice
FlacPayloadRead == FlacRead => PayloadSlice(files[last.path])

\* C3: a read of an open file at offset >= boundary returns
\* payload[offset - boundary : offset - boundary + size]; a read returns
\* fewer than size bytes only when offset + size passes the end of the
\* stream, and nothing at or past the end
C3_PayloadRead == OpenFileRead => PayloadSlice(files[last.path])

\* a read inside the payload that was cut short by the end of the stream
FlacPayloadReadWitness ==
    /\ FlacRead
    /\ last.offset > files[last.path].bound
    /\ ret.kind = "bytes"
    /\ Len(ret.data) > 0
    /\ Len(ret.data) < last.size


\* C4: after k >= 1 successful opens and k releases of a path its state has
\* been discarded, and before the last of these releases it is present
C4_DiscardedAtZero ==
    \A p \in Paths :
      opens[p] >= 1 => (p \in DOMAIN files <=> opens[p] > releases[p])

\* C5: a path with more successful opens than releases has its state in
\* the open-file map
C5_NoEviction == \A p \in Paths : Outstanding(p) => p \in DOMAIN files

\* C6: an open of a path that is already open adds one to its reference
\* count and returns the handler; the handler is not rebuilt from the real
\* file, and every other field of it, every other path's state and the
\* library stay as they were
C6_Reopen ==
    [][ (last'.op = "open" /\ last'.path \in DOMAIN files) =>
          /\ ret' = RetHandle
          /\ files' = [files EXCEPT ![last'.path].instance_count = @ + 1]
          /\ lib' = lib
          /\ realfile' = realfile ]_vars

\* a second open of a path while another path is open too
C6_Witness ==
    /\ last.op = "open"
    /\ last.path \in DOMAIN files
    /\ files[last.path].instance_count >= 2
    /\ \E q \in DOMAIN files : q # last.path

\* the stream a write decodes: header ++ payload with buf laid over it
Overlaid(h, offset, buf) == Overlay(h.header \o h.music_data, offset, buf)

\* a decoded stream is a header that carries the four tags
Decodes(inf) ==
    /\ inf.ok
    /\ \A i \in 1..Len(TagFields) : GetTag(inf.blocks, KeyOf(TagFields[i])).ok

\* the first value of a field's tag in a decoded stream
DecodedValue(inf, field) == GetTag(inf.blocks, KeyOf(field)).value

\* the step is a write, with a file handle, to the open flac file p
FlacWrite(p) ==
    /\ last'.op = "write"
    /\ last'.path = p
    /\ last'.fh
    /\ p \in DOMAIN files
    /\ files[p].format = "flac"

C8_ReadOnlyRegion ==
    [][ \A p \in Paths :
          (FlacWrite(p) /\ last'.offset >= files[p].bound) =>
            /\ ret'.kind \in {"errno", "raise"}
            /\ files' = files
            /\ lib' = lib ]_vars

\* C9: a write below the boundary whose overlaid stream does not decode as
\* a header with the four tags leaves header, boundary and payload, the
\* item in memory and the library (stored and saved) as they were, and the
\* caller receives an error, not a byte count
C9_FailedWriteAtomic ==
    [][ \A p \in Paths :
          (FlacWrite(p) /\ last'.offset < files[p].bound) =>
            \A inf \in {load(Overlaid(files[p], last'.offset, last'.buf))} :
              ~Decodes(inf) =>
                /\ ret'.kind \in {"errno", "raise"}
                /\ files'[p].header = files[p].header
                /\ files'[p].bound = files[p].bound
                /\ files'[p].music_data = files[p].music_data
                /\ files'[p].item = files[p].item
                /\ lib' = lib
      ]_vars

\* the target of get_header: the extent between the magic and the audio
\* offset of a stream
Available(stream) ==
    find_audio_offset(stream, check_header(stream).size)
      - check_header(stream).size

\* C10: after every encode that returns a header, on open and after a
\* successful write, the blocks of the header are as long as the extent
\* between the magic and the audio offset of the stream that was decoded
C10_HeaderFit ==
    [][ \A p \in Paths :
          /\ (/\ last'.op = "open"
              /\ last'.path = p
              /\ p \notin DOMAIN files
              /\ p \in DOMAIN files'
              /\ files'[p].format = "flac") =>
               Len(files'[p].header) - Len(fLaC)
                 = Available(realfile[files'[p].id])
          /\ (FlacWrite(p) /\ ret'.kind = "int") =>
               Len(files'[p].header) - Len(fLaC)
                 = Available(Overlaid(files[p], last'.offset, last'.buf))
      ]_vars

\* the blocks get_header has before it resizes the padding: those of the
\* decoded stream with the item's tags, and one padding block at the end
Grouped(inf, item) ==
    group_padding(Append(SetTags(inf.blocks, item, TagFields),
                         Padding(PaddingInit)))

\* the blocks are longer than the available extent by at least the length
\* of the padding block: the padding would have to shrink to zero or below
PaddingExhausted(grouped, available) ==
    Len(writeblocks(grouped)) - available >= grouped[Len(grouped)].length

\* the step is the first open of the flac path and the real file decodes
FirstFlacOpen ==
    /\ last'.op = "open"
    /\ last'.path = FlacPath
    /\ FlacPath \notin DOMAIN files
    /\ load(realfile[FlacId]).ok

\* C11: when the blocks with the padding exceed the available extent by at
\* least the padding's length the encode fails and produces no header (the
\* open returns no handler), and a header that is produced is never longer
\* than the available extent
C11_HeaderTooLarge ==
    [][ FirstFlacOpen =>
          \A inf \in {load(realfile[FlacId])} :
            \A available \in {Available(realfile[FlacId])} :
              /\ PaddingExhausted(Grouped(inf, lib.stored[FlacId]), available)
                   => /\ ret'.kind \in {"errno", "raise"}
                      /\ FlacPath \notin DOMAIN files'
              /\ FlacPath \in DOMAIN files'
                   => Len(files'[FlacPath].header) - Len(fLaC) <= available
      ]_vars

\* the virtual stream of a handler: header ++ payload
CurrentStream(h) == h.header \o h.music_data

\* a decoded stream carries the four values the item has
SameTags(inf, item) ==
    /\ Decodes(inf)
    /\ \A i \in 1..Len(TagFields) :
         DecodedValue(inf, TagFields[i]) = item[TagFields[i]]

Unedited ==
    /\ FlacPath \in DOMAIN files
    /\ nwrites = 0
    /\ files[FlacPath].item = lib.stored[FlacId]
    /\ SameTags(load(realfile[FlacId]), lib.stored[FlacId])

\* C13: on a freshly opened flac file with no edits, a read at offset 0 of
\* as many bytes as the real file's header and payload have returns the
\* real file's header followed by its payload
C13_SpliceRoundTrip ==
    (/\ FlacRead
     /\ last.offset = 0
     /\ last.size = Len(realfile[FlacId])
     /\ Unedited)
      => ret = RetBytes(realfile[FlacId])

\* the audio offset of a real file: the position just after its last
\* metadata block
SourceAudioOffset(stream) ==
    find_audio_offset(stream, check_header(stream).size)

\* C14: the first open of a flac file records as payload the real file's
\* bytes from the source's audio offset to the end of the file, and as
\* boundary the length of the header, with or without a prefix before the
\* magic
C14_PayloadFromAudioOffset ==
    [][ (FirstFlacOpen /\ FlacPath \in DOMAIN files') =>
          /\ files'[FlacPath].bound = Len(files'[FlacPath].header)
          /\ files'[FlacPath].music_data
               = SliceFrom(realfile[FlacId],
                           SourceAudioOffset(realfile[FlacId]))
      ]_vars

\* the errors load() raises for a chain without stream-info, and for a
\* second comment, cue-sheet or seek-table block
MissingStreamInfo == { "FLACNoHeaderError" }

DuplicateBlock == { "FLACVorbisError", "Exception" }

\* a chain holds a block of the code, and more than one
HasBlock(chain, code) == Count(chain, code) >= 1

Duplicated(chain) ==
    \E code \in { VCFLACDictCode, CueSheetCode, SeekTableCode } :
       Count(chain, code) > 1

\* the outcome inf of decoding the chain is the one its blocks call for
DecodeOutcome(chain, inf) ==
    /\ ~HasBlock(chain, StreamInfoCode) => ~inf.ok
    /\ (~HasBlock(chain, StreamInfoCode) /\ ~Duplicated(chain))
         => inf.err \in MissingStreamInfo
    /\ Duplicated(chain) => ~inf.ok
    /\ (Duplicated(chain) /\ HasBlock(chain, StreamInfoCode))
         => inf.err \in DuplicateBlock
    /\ (HasBlock(chain, StreamInfoCode) /\ ~Duplicated(chain)) => inf.ok

\* C15: decoding a chain without a stream-info block fails with
\* MissingStreamInfo, decoding a chain with more than one comment,
\* cue-sheet or seek-table block fails with DuplicateBlock, and a chain with
\* a stream-info block and at most one of each of the three decodes
C15_DecodeStructure ==
    last.op = "open" =>
      \A chain \in Chains :
        realfile[FlacId] = FlacFile(chain) =>
          \A inf \in {load(realfile[FlacId])} :
            /\ DecodeOutcome(chain, inf)
            /\ FlacPath \in DOMAIN files <=> inf.ok

\* the last call was a read of the open mp3 file
Mp3Read ==
    /\ last.op = "read"
    /\ last.path = Mp3Path
    /\ Mp3Path \in DOMAIN files

\* C16: an mp3 file opens with boundary 0 and the whole real file as
\* payload, a read(size, offset) of it returns the real file's bytes
\* [offset : offset + size], and no write to it changes the state
C16_Mp3PassThrough ==
    [][ /\ Mp3Path \in DOMAIN files' =>
             /\ files'[Mp3Path].bound = 0
             /\ files'[Mp3Path].music_data = realfile[Mp3Id]
        /\ Mp3Read' =>
             ret' = RetBytes(Slice(realfile[Mp3Id], last'.offset,
                                  last'.offset + last'.size))
        /\ (last'.op = "write" /\ last'.path = Mp3Path) =>
             UNCHANGED << structure_split, directory_structure, realfile,
                          lib, files >>
      ]_vars

\* the segments of the item in the mounted tree
Subbed(id) == level_subbed(lib.stored[id], structure_split)

\* no item after id in lib.items() has the same segments
LastAtItsPath(id) ==
    \A i, j \in 1..Len(ItemIds) :
       (ItemIds[i] = id /\ j > i /\ ItemIds[j] \in DOMAIN lib.stored)
         => Subbed(ItemIds[j]) # Subbed(id)

\* the segment lists that may lead to a node of the tree
NodePaths == UNION { [1..n -> Names] : n \in 0..MaxDepth }

\* the node at elements maps the file name to the id
HasFile(tree, elements, filename, id) ==
    \E found \in {getnode(elements, tree)} :
       /\ found.ok
       /\ filename \in DOMAIN found.node.files
       /\ found.node.files[filename] = id

\* the item is in the tree as the claim has it: a node under each prefix of
\* its directory segments, its file in the node of all of them and in no
\* other
Inserted(tree, subbed, id) ==
    /\ \A k \in 1..(Len(subbed) - 1) : getnode(Slice(subbed, 0, k), tree).ok
    /\ HasFile(tree, Slice(subbed, 0, Len(subbed) - 1), subbed[Len(subbed)],
               id)
    /\ \A elements \in NodePaths :
         elements # Slice(subbed, 0, Len(subbed) - 1)
           => ~HasFile(tree, elements, subbed[Len(subbed)], id)

\* C17: for every depth of PATH_FORMAT mount() does not fail, and after it
\* every item has a node under each prefix of its directory segments and
\* its file name maps to its id in the node of all its directory segments,
\* and in no other node
C17_TreeInsertion ==
    last.op = "mount" =>
      /\ ret.kind # "raise"
      /\ \A id \in DOMAIN lib.stored :
           LastAtItsPath(id) => Inserted(directory_structure, Subbed(id), id)

\* the path names a directory or a file of the tree
Present(tree, path) ==
    \/ getnode(path, tree).ok
    \/ /\ path # << >>
       /\ \E found \in {getnode(Front(path), tree)} :
            found.ok /\ Last(path) \in DOMAIN found.node.files

\* the outcome for a path that is not in the tree
NotFound == RetErrno("ENOENT")

\* the operations that look a path up or list it
LookupOps == { "getattr", "access", "opendir", "readdir" }

\* C18: getattr, access, opendir and readdir on a path with a segment that
\* is absent from the tree yield NotFound and leave the tree as it is, and
\* on the root path they succeed
C18_AbsentNotFound ==
    [][ last'.op \in LookupOps =>
          /\ ~Present(directory_structure, last'.path) =>
               /\ ret' = NotFound
               /\ directory_structure' = directory_structure
          /\ last'.path = << >> =>
               ret'.kind \in { "S_IFDIR", "int", "node", "entries" }
      ]_vars

\* every file entry of the tree is in a node reached by structure_depth - 1
\* directory segments
FilesAtDepth(tree) ==
    \A elements \in QueryPaths :
       \A found \in {getnode(elements, tree)} :
          (found.ok /\ DOMAIN found.node.files # {})
            => Len(elements) = structure_depth - 1

\* C19: every file entry of the tree sits in a node reached by N - 1
\* directory segments; getattr on a path whose number of segments is not N
\* reports a directory or NotFound, and open on such a path yields no handle
C19_PathDepth ==
    /\ FilesAtDepth(directory_structure)
    /\ (last.op = "getattr" /\ Len(last.path) # structure_depth)
         => ret \in { RetDirStat, NotFound }
    /\ (last.op = "open" /\ Len(last.path) # structure_depth)
         => /\ ret # RetHandle
            /\ last.path \notin DOMAIN files

\* the step is a call of an unsupported operation
UnsupportedCall == last'.op \in UnsupportedOps

C21_RealFileUntouched == [][ realfile' = realfile ]_vars

\* a release discarded the state of the flac file after a write had changed
\* its title in the library
C21_Witness ==
    /\ last.op = "release"
    /\ last.path = FlacPath
    /\ FlacPath \notin DOMAIN files
    /\ lib.saved[FlacId].title = << 66 >>
    /\ realfile[FlacId] = PlainFile

\* C22: after mount no getattr, access, opendir, readdir, open, read, write
\* or release call changes a directory map or a file map of the tree
C22_TreeImmutable == [][ directory_structure' = directory_structure ]_vars

\* a write that changed the title of the item in the library
C22_Witness ==
    /\ last.op = "write"
    /\ ret.kind = "int"
    /\ lib.saved[FlacId].title = << 66 >>
    /\ LookupId(directory_structure, FlacPath).ok

\* the two items of the library resolve to the same segments, earlier being
\* the one mount() inserts first
Collide(earlier, later) ==
    /\ \E i, j \in 1..Len(ItemIds) :
          i < j /\ ItemIds[i] = earlier /\ ItemIds[j] = later
    /\ {earlier, later} \subseteq DOMAIN lib.stored
    /\ Subbed(earlier) = Subbed(later)

\* C23: when two items resolve to the same path, the file name maps to the
\* id of the item inserted last in the node of that path, and no node maps
\* any name to the earlier item
C23_LastWins ==
    last.op = "mount" =>
      /\ ret.kind # "raise"
      /\ \A earlier, later \in DOMAIN lib.stored :
           Collide(earlier, later) =>
             /\ HasFile(directory_structure,
                        Front(Subbed(later)), Last(Subbed(later)), later)
             /\ \A elements \in NodePaths, name \in Names :
                  ~HasFile(directory_structure, elements, name, earlier)

\* mount() has inserted two items that resolve to the same path
C23_Witness ==
    /\ last.op = "mount"
    /\ Collide(FlacId, Mp3Id)
    /\ HasFile(directory_structure, Front(Subbed(Mp3Id)),
               Last(Subbed(Mp3Id)), Mp3Id)

\* C24: an open that fails returns an error, adds no entry to the open-file
\* map, changes no handler and no reference count in it, and changes nothing
\* in the library
C24_FailedOpen ==
    [][ (last'.op = "open" /\ ret' # RetHandle) =>
          /\ ret'.kind = "errno"
          /\ files' = files
          /\ lib' = lib
      ]_vars

\* with the mp3 file open, an open failed on a flac file that does not
\* decode
C24_Witness ==
    /\ last.op = "open"
    /\ last.path = FlacPath
    /\ realfile[FlacId] = BadFile
    /\ ret = RetErrno("EACCES")
    /\ Mp3Path \in DOMAIN files

ExampleSegments(mapping) ==
    << mapping.artist,
       mapping.album \o << " ", "(" >> \o mapping.year \o << ")" >>,
       mapping.track \o << " ", "-", " " >> \o mapping.title \o << "." >>
         \o mapping.format >>

\* C26: path resolution applies the fallbacks: an empty artist, album or
\* title resolves to 'Unknown Artist', 'Unknown Album' or 'Unknown Track'
\* and a year of 0 to 'Unknown Year', and the segments use them; with the
\* template '$artist/$album ($year)/$track - $title.$format' the item
\* {artist A, album B, year 2001, track 1, title T, format flac} resolves
\* to A/B (2001)/01 - T.flac; equal items give equal segments
C26_Resolution ==
    last.op = "substitute" =>
      \A id \in DOMAIN lib.stored :
         LET item == lib.stored[id]
             made == ret.data[id]
         IN  /\ made.ok
             /\ item.artist = << >> => made.mapping.artist = UnknownArtist
             /\ item.album = << >> => made.mapping.album = UnknownAlbum
             /\ item.title = << >> => made.mapping.title = UnknownTrack
             /\ item.year = 0 => made.mapping.year = UnknownYear
             /\ structure_split = split(ExampleFormatText, "/") =>
                  /\ made.segments = ExampleSegments(made.mapping)
                  /\ item = ExampleItem =>
                       made.segments
                         = << << "A" >>,
                              << "B", " ", "(", "2", "0", "0", "1", ")" >>,
                              << "0", "1", " ", "-", " ", "T",
                                 ".", "f", "l", "a", "c" >> >>
             /\ \A other \in DOMAIN lib.stored :
                  lib.stored[other] = item => ret.data[other] = made

\* the example template resolved for the example item and for an item
\* without artist, album, title and year
C26_Witness ==
    /\ last.op = "substitute"
    /\ structure_split = split(ExampleFormatText, "/")
    /\ lib.stored[Mp3Id] = ExampleItem
    /\ ret.data[Mp3Id].segments[3] = << "0", "1", " ", "-", " ", "T",
         ".", "f", "l", "a", "c" >>
    /\ lib.stored[FlacId].artist = << >>
    /\ lib.stored[FlacId].album = << >>
    /\ lib.stored[FlacId].title = << >>
    /\ lib.stored[FlacId].year = 0
    /\ ret.data[FlacId].segments[1] = UnknownArtist

\* the blocks get_header is given on the first open of the flac file: those
\* decoded from the real file, with the tags of the item
Retained ==
    SetTags(load(realfile[FlacId]).blocks, lib.stored[FlacId], TagFields)

\* a header made of the blocks kept that are not padding, as they are and in
\* their order, and of one padding block after them whose length makes the
\* blocks as long as the available extent
OnlyPaddingResized(header, kept, available) ==
    LET length == available - Len(writeblocks(NonPadding(kept))) - 4
    IN  /\ length >= 0
        /\ header
             = fLaC \o writeblocks(Append(NonPadding(kept), Padding(length)))

\* C27: encoding changes only the trailing padding: the header that the
\* first open of a flac file encodes holds every non-padding block of the
\* decoded chain with its type, order, size and content, and one padding
\* block, placed last, of the length that makes the total the target
C27_OnlyPadding ==
    [][ (FirstFlacOpen /\ FlacPath \in DOMAIN files') =>
          OnlyPaddingResized(files'[FlacPath].header, Retained,
                             Available(realfile[FlacId]))
      ]_vars

HeaderBlocks(header) == read_metadata_blocks(header, Len(fLaC), << >>)

\* the value of a field that encoded blocks hold: the first entry of its
\* key in the comment block
Encoded(r, field) == IF ~r.ok THEN r ELSE GetTag(r.blocks, KeyOf(field))

C30_ReadChangesNothing ==
    [][ last'.op = "read" =>
          /\ files' = files
          /\ lib' = lib
          /\ last' = last => ret' = ret
      ]_vars

\* C31: a write to an open file, successful or not, changes neither the
\* payload nor the reference count of the path, and a successful write
\* keeps boundary + len(payload), whatever block lengths and is-last flags
\* the bytes written carry
C31_WriteKeepsLength ==
    [][ \A p \in DOMAIN files :
          (last'.op = "write" /\ last'.path = p) =>
            /\ p \in DOMAIN files'
            /\ files'[p].music_data = files[p].music_data
            /\ files'[p].instance_count = files[p].instance_count
            /\ ret'.kind = "int" =>
                 files'[p].bound + Len(files'[p].music_data)
                   = files[p].bound + Len(files[p].music_data)
      ]_vars

====
